---------------------------- MODULE Spec2Model ----------------------------
(***************************************************************************)
(* A model of the UP Experiences web client: the application controller   *)
(* (src/xp/main.js), the view renderer (src/xp/ui.js), the contact modal  *)
(* (src/xp/modal.js), the remote data client (src/unnamed/part_000) and   *)
(* the validation utilities (src/unnamed/part_001).                       *)
(*                                                                         *)
(* JavaScript runs one handler at a time; an async function gives up      *)
(* control only at an await.  Each action below is one such uninterrupted *)
(* run: an event handler up to its first pending await, or the            *)
(* continuation of a suspended activation once the awaited network call   *)
(* has settled, up to the next pending await or the end.  Messages are    *)
(* written without diacritics.                                            *)
(***************************************************************************)
EXTENDS Integers, Sequences, FiniteSets, TLC

VARIABLES
    booted,      \* initializeApp has run: the listeners are attached
    appState,    \* main.js appState: currentLang, cachedData, translations, isLoading
    ui,          \* the three view regions, the error text, the labels, the cards
    langSelect,  \* the #langSelect element: value, disabled, dataset.currentLang
    loads,       \* suspended activations of loadAppData
    langs,       \* suspended activations of the language selector's change listener
    getCount,    \* GET requests issued to the experiences endpoint
    event        \* the handler or continuation that ran last, and what it threw

appVars == <<booted, appState, ui, langSelect, loads, langs, getCount>>

-----------------------------------------------------------------------------
(* Bounds *)

\* Activations of loadAppData the model keeps suspended at once.
MaxLoads == 2
\* GET requests after which no further retry is clicked.
MaxGets == 3

-----------------------------------------------------------------------------
(* Locales and translations *)

Langs == {"pt-br", "en-us"}
DefaultLang == "pt-br"

\* appState.translations before any load: the empty object.
EmptyTranslations == "{}"

\* The mapping the translation loader resolves to for a language: a non-empty
\* mapping of label keys to that language's strings, named here by its language.
TranslationsOf(lang) == lang

\* The message of the error a rejected loadTranslations carries.
LoaderErrorMessage == "loadTranslations rejected"

-----------------------------------------------------------------------------
(* Strings.  A string is a sequence of characters; a character outside ASCII
   is named by its code point, and the body of a URL is one character. *)

\* Members of the class \s, which String.prototype.trim strips as well: space,
\* tab, line feed, no-break space.
Whitespace == {" ", "TAB", "LF", "U+00A0"}

RECURSIVE trimStart(_)
trimStart(str) ==
    IF str # <<>> /\ Head(str) \in Whitespace THEN trimStart(Tail(str)) ELSE str

RECURSIVE trimEnd(_)
trimEnd(str) ==
    IF str # <<>> /\ str[Len(str)] \in Whitespace
    THEN trimEnd(SubSeq(str, 1, Len(str) - 1))
    ELSE str

trim(str) == trimEnd(trimStart(str))

-----------------------------------------------------------------------------
(* Experience records and the GET response *)

Null == [null |-> TRUE, results |-> <<>>]
Data(rs) == [null |-> FALSE, results |-> rs]

\* A JSON value where the code expects a string: absent, a number, or a string.
Absent == [type |-> "absent", text |-> <<>>]
Number == [type |-> "number", text |-> <<>>]
Str(text) == [type |-> "string", text |-> text]

\* The Image field: absent, not an array, an empty array, or an array whose
\* first attachment has a url and, if cover, a thumbnails.card_cover with a url.
NoImage == [kind |-> "absent", cover |-> FALSE, thumb |-> Absent, url |-> Absent]
Attachment(cover, thumb, url) ==
    [kind |-> "list", cover |-> cover, thumb |-> thumb, url |-> url]

DirectUrl == "https://cdn.example/direct.jpg"
ThumbUrl == "https://files.baserow.io/thumb"
OriginalUrl == "https://cdn.example/original.png"
PageUrl == "https://example.com/page"
RelativeUrl == "/images/relative.png"

WithImage(rec, direct, image) == [rec EXCEPT !.ImageURL = direct, !.Image = image]

Rec(id, npt, nen, dpt, den) ==
    [id |-> id, Name_pt_br |-> npt, Name_en_us |-> nen,
     Description_pt_br |-> dpt, Description_en_us |-> den,
     ImageURL |-> Absent, Image |-> NoImage, object |-> TRUE]

\* A null in the results array: no object, reading a field of it throws.
NullRecord == [Rec(0, "", "", "", "") EXCEPT !.object = FALSE]

\* The lists the experiences endpoint answers with in the model.
ListTwo == << WithImage(Rec(1, "Trilha", "Trail", "Subida ao pico", "Climb to the peak"),
                        Str(<<DirectUrl>>), NoImage),
              WithImage(Rec(2, "Passeio de barco", "", "Baia ao por do sol", ""),
                        Absent, Attachment(TRUE, Str(<<ThumbUrl>>), Str(<<OriginalUrl>>))) >>
ListInvalid == << Rec(3, "", "", "Sem nome", "No name") >>
ListEmpty == << >>
Lists == {ListTwo, ListInvalid, ListEmpty}

\* What a GET can come to: the request fails, or a response arrives with a
\* successful or unsuccessful status and a body that is not JSON, is the JSON
\* null, is an object without results, has a falsy results (null, 0, ""), has
\* a results that is no array, or has a results array.
Bodies == {"notjson", "null", "noresults", "falsy", "notarray"}
Responses ==
    { [kind |-> "network", ok |-> FALSE, body |-> "none", results |-> <<>>] }
    \cup { [kind |-> "response", ok |-> o, body |-> b, results |-> <<>>] :
             o \in BOOLEAN, b \in Bodies }
    \cup { [kind |-> "response", ok |-> o, body |-> "array", results |-> rs] :
             o \in BOOLEAN, rs \in Lists }

FetchErrorMessage == "Nao foi possivel carregar as experiencias. Tente novamente mais tarde."

\* Mutant: the status is not tested.
fetchExperiences_statusUnchecked(resp) ==
    IF resp.kind = "response" /\ resp.body = "array"
    THEN [ok |-> TRUE, data |-> Data(resp.results), message |-> ""]
    ELSE [ok |-> FALSE, data |-> Null, message |-> FetchErrorMessage]

\* fetchExperiences: every throw inside its try block, its own or the
\* runtime's, reaches the catch block, which throws the one fixed error.
fetchExperiences(resp) ==
    LET failure == [ok |-> FALSE, data |-> Null, message |-> FetchErrorMessage]
    IN IF resp.kind = "network" THEN failure            \* fetch rejects
       ELSE IF ~resp.ok THEN failure                    \* HTTP error! status
       ELSE IF resp.body = "notjson" THEN failure       \* response.json() rejects
       ELSE IF resp.body = "null" THEN failure          \* data.results of null
       ELSE IF resp.body \in {"noresults", "falsy"} THEN failure  \* !data.results
       ELSE IF resp.body # "array" THEN failure         \* !Array.isArray
       ELSE [ok |-> TRUE, data |-> Data(resp.results), message |-> ""]

\* Mutant: the description is not required.
validateExperienceData_noDescription(experience) ==
    /\ experience.object
    /\ experience.id # 0
    /\ experience.Name_pt_br # "" \/ experience.Name_en_us # ""

\* validateExperienceData of a null throws a TypeError at its second line.
validateExperienceDataThrows(experience) == ~experience.object

validateExperienceData(experience) ==
    LET hasValidId == experience.object /\ experience.id # 0
        hasValidName == experience.Name_pt_br # "" \/ experience.Name_en_us # ""
        hasValidDescription ==
            experience.Description_pt_br # "" \/ experience.Description_en_us # ""
    IN hasValidId /\ hasValidName /\ hasValidDescription

\* new URL(text) succeeds: the text is an absolute URL.
ParsableUrls == {DirectUrl, ThumbUrl, OriginalUrl, PageUrl}
\* The text ends in an image extension or includes one of the hosting words.
ImageLikeUrls == {DirectUrl, ThumbUrl, OriginalUrl, RelativeUrl}

isValidImageUrl(url) ==
    /\ url.type = "string"
    /\ url.text # <<>>
    /\ LET trimmedUrl == trim(url.text)
       IN /\ Len(trimmedUrl) = 1
          /\ trimmedUrl[1] \in ParsableUrls
          /\ trimmedUrl[1] \in ImageLikeUrls

\* Mutant: the direct URL is taken without the plausibility check.
imageUrlOf_directUnchecked(experience) ==
    LET direct == experience.ImageURL
        image == experience.Image
    IN IF direct.type = "string" /\ direct.text # <<>> THEN trim(direct.text)
       ELSE IF image.kind = "list" /\ image.cover /\ isValidImageUrl(image.thumb)
       THEN image.thumb.text
       ELSE IF image.kind = "list" /\ image.url.type # "absent"
               /\ image.url # Str(<<>>) /\ isValidImageUrl(image.url)
       THEN image.url.text
       ELSE <<>>

\* formatExperienceData's three tries, in its order; "" is <<>>.
imageUrlOf(experience) ==
    LET direct == experience.ImageURL
        image == experience.Image
        first == IF direct.type = "string" /\ direct.text # <<>>
                    /\ isValidImageUrl(Str(trim(direct.text)))
                 THEN trim(direct.text) ELSE <<>>
        second == IF first = <<>> /\ image.kind = "list" /\ image.cover
                     /\ isValidImageUrl(image.thumb)
                  THEN image.thumb.text ELSE first
    IN IF second = <<>> /\ image.kind = "list"
          /\ image.url.type # "absent" /\ image.url # Str(<<>>)
          /\ isValidImageUrl(image.url)
       THEN image.url.text ELSE second

NamePlaceholder == "Experiencia sem nome"
DescriptionPlaceholder == "Descricao nao disponivel"

\* Mutant: the name and the description are returned as they are.
formatExperienceData_noPlaceholder(experience, language) ==
    [id |-> experience.id,
     name |-> IF language = "en-us" THEN experience.Name_en_us
              ELSE experience.Name_pt_br,
     description |-> IF language = "en-us" THEN experience.Description_en_us
                     ELSE experience.Description_pt_br,
     imageUrl |-> imageUrlOf(experience),
     originalData |-> experience]

formatExperienceData(experience, language) ==
    LET name == IF language = "en-us" THEN experience.Name_en_us
                ELSE experience.Name_pt_br
        description == IF language = "en-us" THEN experience.Description_en_us
                       ELSE experience.Description_pt_br
    IN [id |-> experience.id,
        name |-> IF name # "" THEN name ELSE NamePlaceholder,
        description |-> IF description # "" THEN description
                        ELSE DescriptionPlaceholder,
        imageUrl |-> imageUrlOf(experience),
        originalData |-> experience]

-----------------------------------------------------------------------------
(* View renderer: ui.js.  TRUE means the region is visible. *)

showLoading(u) ==
    [u EXCEPT !.loadingState = TRUE, !.dynamicData = FALSE, !.errorState = FALSE]

hideLoading(u) == [u EXCEPT !.loadingState = FALSE]

showError(u, message) ==
    [u EXCEPT !.errorMessage = message, !.errorState = TRUE,
              !.dynamicData = FALSE, !.loadingState = FALSE]

hideError(u) == [u EXCEPT !.errorState = FALSE]

\* Mutant: showData leaves the error region as it is.
showData_keepError(u) == [u EXCEPT !.dynamicData = TRUE, !.loadingState = FALSE]

showData(u) ==
    [u EXCEPT !.dynamicData = TRUE, !.loadingState = FALSE, !.errorState = FALSE]

renderExperiences(u, experiences) == showData([u EXCEPT !.cards = experiences])

updateLanguageLabels(u, translations) == [u EXCEPT !.labels = translations]

-----------------------------------------------------------------------------
(* Application controller: main.js *)

renderData(u, st) ==
    IF st.cachedData.null
    THEN showError(u, "Nenhuma experiencia encontrada.")
    ELSE IF \E i \in 1..Len(st.cachedData.results) :
               validateExperienceDataThrows(st.cachedData.results[i])
    THEN showError(u, "Erro ao exibir experiencias.")
    ELSE LET valid == SelectSeq(st.cachedData.results, validateExperienceData)
             formattedExperiences ==
                 [i \in 1..Len(valid) |-> formatExperienceData(valid[i], st.currentLang)]
         IN IF Len(formattedExperiences) = 0
            THEN showError(u, "Nenhuma experiencia valida encontrada.")
            ELSE renderExperiences(u, formattedExperiences)

RemoveAt(s, i) == [k \in 1..(Len(s) - 1) |-> IF k < i THEN s[k] ELSE s[k + 1]]

\* loadTranslationsForLanguage: a failed load falls back to the default locale
\* unless the default locale is the one that failed.
needsFallback(language) == language # DefaultLang

\* A new activation of loadAppData, suspended on loadTranslations(language).
\* origin, hadCache, transOk, fallbacks and fetches record the activation's own
\* history: who started it, whether a list was cached before it, whether its
\* translation load has succeeded, and the fallback loads and GETs it has issued.
NewLoad(language, origin, hadCache) ==
    [pc |-> "translations", language |-> language, origin |-> origin,
     hadCache |-> hadCache, transOk |-> FALSE, fallbacks |-> 0, fetches |-> 0]

\* Mutant: loadAppData without its guard.
loadAppDataIgnored_never(st) == FALSE

\* loadAppData's guard: a call made while a load is in flight returns at once.
loadAppDataIgnored(st) == st.isLoading

\* loadAppData up to its first await.
loadAppData(st, u, ls, origin, hadCache) ==
    IF loadAppDataIgnored(st)
    THEN [appState |-> st, ui |-> u, loads |-> ls]
    ELSE [appState |-> [st EXCEPT !.isLoading = TRUE],
          ui |-> showLoading(u),
          loads |-> Append(ls, NewLoad(st.currentLang, origin, hadCache))]

\* loadAppData's catch block.
loadAppDataCatch(st, u, message) ==
    IF st.translations = EmptyTranslations
    THEN showError(u, "Erro ao carregar traducoes. Verifique sua conexao.")
    ELSE showError(u, IF message # "" THEN message
                      ELSE "Erro ao carregar experiencias. Tente novamente.")

\* Mutant: a finally block that leaves the loading flag set.
loadAppDataFinally_flagKept(st, u) == [appState |-> st, ui |-> hideLoading(u)]

\* loadAppData's finally block.
loadAppDataFinally(st, u) ==
    [appState |-> [st EXCEPT !.isLoading = FALSE], ui |-> hideLoading(u)]

\* Mutant: a retry that keeps the cached list.
clearCache_keep(st) == st

\* handleRetry's first statement.
clearCache(st) == [st EXCEPT !.cachedData = Null]

\* What the last run was: the handler or continuation, the message of the error
\* it threw to its caller or caught at its top ("" if none), and the loadAppData
\* activation or the language change it belongs to, as the run left it.
None == [pc |-> "none"]
Ev(op, error, load, lang) == [op |-> op, error |-> error, load |-> load, lang |-> lang]
Ended(activation) == [activation EXCEPT !.pc = "done"]

\* A load continuation assigned appState.translations: the language changes in
\* flight note it.
NoteLoadWrote(ts) == [j \in 1..Len(ts) |-> [ts[j] EXCEPT !.loadWrote = TRUE]]

(* initializeApp, up to the first await of loadAppData. *)
InitializeApp ==
    /\ ~booted
    /\ booted' = TRUE
    /\ langSelect' = [langSelect EXCEPT !.value = appState.currentLang]
    /\ LET r == loadAppData(appState, ui, loads, "init", ~appState.cachedData.null)
       IN /\ appState' = r.appState
          /\ ui' = r.ui
          /\ loads' = r.loads
    /\ event' = Ev("initializeApp", "", None, None)
    /\ UNCHANGED <<langs, getCount>>

(* A click on the retry control: handleRetry. *)
HandleRetry ==
    /\ booted
    /\ getCount < MaxGets
    /\ Len(loads) < MaxLoads
    /\ LET r == loadAppData(clearCache(appState), ui, loads, "retry",
                            ~appState.cachedData.null)
       IN /\ appState' = r.appState
          /\ ui' = r.ui
          /\ loads' = r.loads
    /\ event' = Ev("handleRetry", "", None, None)
    /\ UNCHANGED <<booted, langSelect, langs, getCount>>

\* loadAppData after its translation load succeeded: the GET if nothing is
\* cached, else the render and the end of the sequence.
LoadAfterTranslations(i, st, u, op) ==
    IF st.cachedData.null
    THEN LET t == [loads[i] EXCEPT !.pc = "fetch", !.transOk = TRUE, !.fetches = @ + 1]
         IN /\ appState' = st
            /\ ui' = u
            /\ loads' = [loads EXCEPT ![i] = t]
            /\ getCount' = getCount + 1
            /\ event' = Ev(op, "", t, None)
    ELSE LET f == loadAppDataFinally(st, renderData(u, st))
         IN /\ appState' = f.appState
            /\ ui' = f.ui
            /\ loads' = RemoveAt(loads, i)
            /\ getCount' = getCount
            /\ event' = Ev(op, "", Ended([loads[i] EXCEPT !.transOk = TRUE]), None)

\* loadAppData after an error reached its catch block.
LoadFailed(i, st, u, message, op) ==
    LET f == loadAppDataFinally(st, loadAppDataCatch(st, u, message))
    IN /\ appState' = f.appState
       /\ ui' = f.ui
       /\ loads' = RemoveAt(loads, i)
       /\ getCount' = getCount
       /\ event' = Ev(op, message, Ended(loads[i]), None)

(* loadTranslations(language) resolves for a suspended loadAppData. *)
LoadTranslationsResolved(i) ==
    /\ loads[i].pc = "translations"
    /\ LET st == [appState EXCEPT !.translations = TranslationsOf(loads[i].language)]
       IN LoadAfterTranslations(i, st, updateLanguageLabels(ui, st.translations),
                                "loadTranslationsResolved")
    /\ langs' = NoteLoadWrote(langs)
    /\ UNCHANGED <<booted, langSelect>>

\* Mutant: loadTranslationsForLanguage logs a rejected load and returns, so the
\* sequence goes on to its GET.
LoadTranslationsRejected_swallowed(i) ==
    /\ loads[i].pc = "translations"
    /\ LoadAfterTranslations(i, appState, ui, "loadTranslationsRejected")
    /\ UNCHANGED <<booted, langSelect, langs>>

(* loadTranslations(language) rejects for a suspended loadAppData. *)
LoadTranslationsRejected(i) ==
    /\ loads[i].pc = "translations"
    /\ IF needsFallback(loads[i].language)
       THEN LET t == [loads[i] EXCEPT !.pc = "fallback", !.fallbacks = @ + 1]
            IN /\ appState' = [appState EXCEPT !.currentLang = DefaultLang]
               /\ loads' = [loads EXCEPT ![i] = t]
               /\ event' = Ev("loadTranslationsRejected", "", t, None)
               /\ UNCHANGED <<ui, getCount>>
       ELSE LoadFailed(i, appState, ui, "Nao foi possivel carregar as traducoes",
                       "loadTranslationsRejected")
    /\ UNCHANGED <<booted, langSelect, langs>>

(* The fallback loadTranslations('pt-br') resolves for a suspended loadAppData. *)
LoadFallbackResolved(i) ==
    /\ loads[i].pc = "fallback"
    /\ LET st == [appState EXCEPT !.translations = TranslationsOf(DefaultLang)]
       IN LoadAfterTranslations(i, st, updateLanguageLabels(ui, st.translations),
                                "loadFallbackResolved")
    /\ langs' = NoteLoadWrote(langs)
    /\ UNCHANGED <<booted, langSelect>>

(* The fallback loadTranslations('pt-br') rejects for a suspended loadAppData. *)
LoadFallbackRejected(i) ==
    /\ loads[i].pc = "fallback"
    /\ LoadFailed(i, appState, ui, LoaderErrorMessage, "loadFallbackRejected")
    /\ UNCHANGED <<booted, langSelect, langs>>

(* fetchExperiences settles for a suspended loadAppData. *)
LoadFetchSettled(i, resp) ==
    /\ loads[i].pc = "fetch"
    /\ LET r == fetchExperiences(resp)
       IN IF r.ok
          THEN LET st == [appState EXCEPT !.cachedData = r.data]
                   f == loadAppDataFinally(st, renderData(ui, st))
               IN /\ appState' = f.appState
                  /\ ui' = f.ui
                  /\ loads' = RemoveAt(loads, i)
                  /\ getCount' = getCount
                  /\ event' = Ev("loadFetchSettled", "", Ended(loads[i]), None)
          ELSE LoadFailed(i, appState, ui, r.message, "loadFetchSettled")
    /\ UNCHANGED <<booted, langSelect, langs>>

-----------------------------------------------------------------------------
(* Language change: the selector's change listener (ui.js) around
   handleLanguageChange (main.js) *)

\* A new activation of the change listener, suspended in handleLanguageChange
\* on loadTranslations(newLang).  transBefore is appState.translations when the
\* change began; loadWrote notes that a load sequence assigned it since.
NewLang(newLang, previousLang, transBefore) ==
    [pc |-> "translations", newLang |-> newLang, previousLang |-> previousLang,
     fallbacks |-> 0, transBefore |-> transBefore, loadWrote |-> FALSE]

\* Mutant: a language change that drops the cached list.
handleLanguageChangeStart_dropCache(st, newLang) ==
    [st EXCEPT !.currentLang = newLang, !.cachedData = Null]

\* handleLanguageChange before its await.
handleLanguageChangeStart(st, newLang) == [st EXCEPT !.currentLang = newLang]

\* Mutant: a catch block that does not restore currentLang.
handleLanguageChangeCatch_noRollback(st, previousLang) == st

\* handleLanguageChange's catch block: the rollback of appState.
handleLanguageChangeCatch(st, previousLang) == [st EXCEPT !.currentLang = previousLang]

\* The change listener from handleLanguageChange's return or throw to its end:
\* handleLanguageChange's catch sets the selector to previousLang, the
\* listener's catch sets it to dataset.currentLang or 'pt-br', the finally
\* enables it, and the last statement stores newLang in the dataset.
changeListenerEnd(sel, newLang, previousLang, threw) ==
    LET s1 == IF threw THEN [sel EXCEPT !.value = previousLang] ELSE sel
        s2 == IF threw
              THEN [s1 EXCEPT !.value = IF s1.currentLang # "" THEN s1.currentLang
                                        ELSE "pt-br"]
              ELSE s1
    IN [s2 EXCEPT !.disabled = FALSE, !.currentLang = newLang]

\* handleLanguageChange after its translation load succeeded.
handleLanguageChangeRender(st, u) ==
    IF ~st.cachedData.null THEN renderData(u, st) ELSE u

(* The user picks another option of the selector. *)
LangChange(newLang) ==
    /\ booted
    /\ ~langSelect.disabled
    /\ newLang # langSelect.value
    /\ LET sel == [langSelect EXCEPT !.value = newLang, !.disabled = TRUE]
           t == NewLang(newLang, appState.currentLang, appState.translations)
       IN IF newLang = appState.currentLang
          THEN /\ langSelect' = changeListenerEnd(sel, newLang, appState.currentLang, FALSE)
               /\ event' = Ev("langChange", "", None, Ended(t))
               /\ UNCHANGED <<appState, langs>>
          ELSE /\ langSelect' = sel
               /\ appState' = handleLanguageChangeStart(appState, newLang)
               /\ langs' = Append(langs, t)
               /\ event' = Ev("langChange", "", None, t)
    /\ UNCHANGED <<booted, ui, loads, getCount>>

\* The change ends well: translations assigned, labels and cards redrawn.
LangSucceeded(j, lang, op) ==
    LET st == [appState EXCEPT !.translations = TranslationsOf(lang)]
    IN /\ appState' = st
       /\ ui' = handleLanguageChangeRender(st, updateLanguageLabels(ui, st.translations))
       /\ langSelect' = changeListenerEnd(langSelect, langs[j].newLang,
                                          langs[j].previousLang, FALSE)
       /\ langs' = RemoveAt(langs, j)
       /\ event' = Ev(op, "", None, Ended(langs[j]))

\* The change ends in handleLanguageChange's catch block, which throws again.
LangFailed(j, message, op) ==
    /\ appState' = handleLanguageChangeCatch(appState, langs[j].previousLang)
    /\ langSelect' = changeListenerEnd(langSelect, langs[j].newLang,
                                       langs[j].previousLang, TRUE)
    /\ langs' = RemoveAt(langs, j)
    /\ ui' = ui
    /\ event' = Ev(op, message, None, Ended(langs[j]))

(* loadTranslations(newLang) resolves for a suspended language change. *)
LangTranslationsResolved(j) ==
    /\ langs[j].pc = "translations"
    /\ LangSucceeded(j, langs[j].newLang, "langTranslationsResolved")
    /\ UNCHANGED <<booted, loads, getCount>>

(* loadTranslations(newLang) rejects for a suspended language change. *)
LangTranslationsRejected(j) ==
    /\ langs[j].pc = "translations"
    /\ IF needsFallback(langs[j].newLang)
       THEN LET t == [langs[j] EXCEPT !.pc = "fallback", !.fallbacks = @ + 1]
            IN /\ appState' = [appState EXCEPT !.currentLang = DefaultLang]
               /\ langs' = [langs EXCEPT ![j] = t]
               /\ event' = Ev("langTranslationsRejected", "", None, t)
               /\ UNCHANGED <<ui, langSelect>>
       ELSE LangFailed(j, "Nao foi possivel carregar as traducoes",
                       "langTranslationsRejected")
    /\ UNCHANGED <<booted, loads, getCount>>

(* The fallback loadTranslations('pt-br') resolves for a suspended language change. *)
LangFallbackResolved(j) ==
    /\ langs[j].pc = "fallback"
    /\ LangSucceeded(j, DefaultLang, "langFallbackResolved")
    /\ UNCHANGED <<booted, loads, getCount>>

(* The fallback loadTranslations('pt-br') rejects for a suspended language change. *)
LangFallbackRejected(j) ==
    /\ langs[j].pc = "fallback"
    /\ LangFailed(j, LoaderErrorMessage, "langFallbackRejected")
    /\ UNCHANGED <<booted, loads, getCount>>

-----------------------------------------------------------------------------
(* The window's unhandledrejection and error listeners: main.js *)

(* A promise of the page rejects with no handler. *)
UnhandledRejection ==
    /\ booted
    /\ ui' = IF appState.isLoading
             THEN showError(hideLoading(ui), "Erro inesperado. Tente recarregar a pagina.")
             ELSE ui
    /\ event' = Ev("unhandledrejection", "", None, None)
    /\ UNCHANGED <<booted, appState, langSelect, loads, langs, getCount>>

(* A script of the page throws; mentionsFetch: its message includes 'fetch'. *)
UncaughtError(mentionsFetch) ==
    /\ booted
    /\ ui' = IF mentionsFetch
             THEN showError(ui, "Erro de conexao. Verifique sua internet.")
             ELSE ui
    /\ event' = Ev("error", "", None, None)
    /\ UNCHANGED <<booted, appState, langSelect, loads, langs, getCount>>

-----------------------------------------------------------------------------
(* Validation and formatting utilities *)

Digits == {"0", "1", "2", "3", "4", "5", "6", "7", "8", "9"}
AsciiLetters ==
    {"a", "b", "c", "d", "e", "f", "g", "h", "i", "j", "k", "l", "m",
     "n", "o", "p", "q", "r", "s", "t", "u", "v", "w", "x", "y", "z",
     "A", "B", "C", "D", "E", "F", "G", "H", "I", "J", "K", "L", "M",
     "N", "O", "P", "Q", "R", "S", "T", "U", "V", "W", "X", "Y", "Z"}
\* Members of the regular expression's range U+00C0 to U+00FF: A grave, the
\* multiplication sign, e acute, the division sign, y diaeresis.
Latin1Range == {"U+00C0", "U+00D7", "U+00E9", "U+00F7", "U+00FF"}
IsDigit(c) == c \in Digits

\* phone.replace(/\D/g, '')
cleanPhone(phone) == SelectSeq(phone, IsDigit)

\* Mutant: only mobile numbers are accepted.
validateBrazilianPhone_mobileOnly(phone) == Len(cleanPhone(phone)) = 11

validateBrazilianPhone(phone) ==
    Len(cleanPhone(phone)) = 10 \/ Len(cleanPhone(phone)) = 11

\* Mutant: the landline branch is missing.
formatBrazilianPhone_mobileOnly(phone) ==
    LET c == cleanPhone(phone)
    IN IF Len(c) = 11
       THEN <<"(">> \o SubSeq(c, 1, 2) \o <<")", " ">> \o SubSeq(c, 3, 7)
            \o <<"-">> \o SubSeq(c, 8, 11)
       ELSE phone

formatBrazilianPhone(phone) ==
    LET c == cleanPhone(phone)
    IN IF Len(c) = 11
       THEN <<"(">> \o SubSeq(c, 1, 2) \o <<")", " ">> \o SubSeq(c, 3, 7)
            \o <<"-">> \o SubSeq(c, 8, 11)
       ELSE IF Len(c) = 10
       THEN <<"(">> \o SubSeq(c, 1, 2) \o <<")", " ">> \o SubSeq(c, 3, 6)
            \o <<"-">> \o SubSeq(c, 7, 10)
       ELSE phone

\* /^[a-zA-ZÀ-ÿ\s\-]{2,}$/ on the trimmed name
validateName(name) ==
    LET trimmedName == trim(name)
    IN /\ Len(trimmedName) >= 2
       /\ \A k \in 1..Len(trimmedName) :
             trimmedName[k] \in AsciiLetters \cup Latin1Range \cup Whitespace \cup {"-"}

-----------------------------------------------------------------------------
(* Remote data client: submitContact *)

ServerErrorMessage == "Erro no servidor. Tente novamente em alguns minutos."
ConnectionErrorMessage == "Erro de conexao. Verifique sua internet e tente novamente."
GenericErrorMessage == "Erro ao enviar mensagem. Tente novamente."

\* What a POST can come to: fetch rejects with a TypeError whose message does
\* or does not include 'fetch' (the text is the browser's), or a response
\* arrives with a successful or unsuccessful status and a body that is or is
\* not JSON.
PostOutcomes ==
    { [kind |-> "rejected", mentionsFetch |-> b, ok |-> FALSE, json |-> FALSE] :
        b \in BOOLEAN }
    \cup { [kind |-> "response", mentionsFetch |-> FALSE, ok |-> o, json |-> j] :
             o \in BOOLEAN, j \in BOOLEAN }

\* submitContact: "" when it returns the response data, else the message of the
\* error it throws.
submitContact(outcome) ==
    IF outcome.kind = "rejected"
    THEN IF outcome.mentionsFetch THEN ConnectionErrorMessage ELSE GenericErrorMessage
    ELSE IF ~outcome.json THEN GenericErrorMessage
    ELSE IF ~outcome.ok THEN ServerErrorMessage
    ELSE ""

-----------------------------------------------------------------------------
(* Modal controller: modal.js *)

VARIABLES
    document,    \* the contact modals in the body, body.style.overflow, and the
                 \* keydown listeners openContactModal has left on the document
    posts,       \* suspended activations of handleFormSubmit, one per POST in flight
    waCount,     \* WhatsApp links opened
    formEvent    \* the modal handler or continuation that ran last

modalVars == <<document, posts, waCount>>

\* POST requests the model keeps in flight at once.
MaxInFlight == 2
\* WhatsApp links opened or still to open (a POST in flight may open one)
\* beyond which no further valid form is submitted.
MaxOpens == 2
\* Keydown listeners left on the document after which no further modal is opened.
MaxEscapeListeners == 2

ModalIds == 1..(MaxInFlight + 2)

\* What the visitor leaves in the name field and types into the phone field.
NameInputs == { <<>>, <<"A", "1">>, <<" ", "A", "n", "a", " ">> }
PhoneInputs == { <<>>, <<"2", "1", "9", "8", "7", "6">>,
                 <<"2", "1", "9", "8", "7", "6", "5", "4", "3", "2", "1">> }

\* The DOM createModalElement builds.  An error element holds "" while hidden;
\* a field's red border goes with its error element.
createModalElement(id) ==
    [id |-> id, name |-> <<>>, whatsapp |-> <<>>,
     formError |-> "", nameError |-> "", whatsappError |-> "",
     submitDisabled |-> FALSE]

\* closeContactModal removes the first element with id contact-modal.
closeContactModal(d) ==
    IF d.modals # <<>>
    THEN [d EXCEPT !.modals = Tail(@), !.overflow = ""]
    ELSE d

\* Mutant: an open that does not remove the modal already there.
openContactModal_noClose(d, id) ==
    [d EXCEPT !.modals = Append(@, createModalElement(id)),
              !.escapeListeners = @ + 1,
              !.overflow = "hidden"]

openContactModal(d, id) ==
    LET d1 == closeContactModal(d)
    IN [d1 EXCEPT !.modals = Append(@, createModalElement(id)),
                  !.escapeListeners = @ + 1,
                  !.overflow = "hidden"]

\* Every handleEscape listener on the document closes a modal and removes itself.
RECURSIVE escapePressed(_)
escapePressed(d) ==
    IF d.escapeListeners = 0 THEN d
    ELSE escapePressed([closeContactModal(d) EXCEPT !.escapeListeners = @ - 1])

NameRequiredMessage == "Nome e obrigatorio"
NameInvalidMessage == "Nome deve ter pelo menos 2 caracteres e conter apenas letras"
WhatsappRequiredMessage == "WhatsApp e obrigatorio"
WhatsappInvalidMessage == "Numero de WhatsApp invalido"

\* Mutant: the phone is checked first.
validateForm_phoneFirst(name, whatsapp) ==
    (IF whatsapp = <<>> THEN <<WhatsappRequiredMessage>>
     ELSE IF ~validateBrazilianPhone(whatsapp) THEN <<WhatsappInvalidMessage>>
     ELSE <<>>)
    \o
    (IF name = <<>> THEN <<NameRequiredMessage>>
     ELSE IF ~validateName(name)
          THEN <<NameInvalidMessage>>
     ELSE <<>>)

\* Mutant: the phone is not checked.
validateForm_nameOnly(name, whatsapp) ==
    IF name = <<>> THEN <<NameRequiredMessage>>
    ELSE IF ~validateName(name)
         THEN <<NameInvalidMessage>>
    ELSE <<>>

validateForm(name, whatsapp) ==
    (IF name = <<>> THEN <<NameRequiredMessage>>
     ELSE IF ~validateName(name)
          THEN <<NameInvalidMessage>>
     ELSE <<>>)
    \o
    (IF whatsapp = <<>> THEN <<WhatsappRequiredMessage>>
     ELSE IF ~validateBrazilianPhone(whatsapp) THEN <<WhatsappInvalidMessage>>
     ELSE <<>>)

clearFieldErrors(m) == [m EXCEPT !.nameError = "", !.whatsappError = ""]

highlightInvalidFields(m, name, whatsapp) ==
    LET m1 == IF name = <<>> \/ ~validateName(name)
              THEN [m EXCEPT !.nameError = IF name = <<>> THEN "Nome e obrigatorio"
                                           ELSE "Nome invalido"]
              ELSE m
    IN IF whatsapp = <<>> \/ ~validateBrazilianPhone(whatsapp)
       THEN [m1 EXCEPT !.whatsappError = IF whatsapp = <<>> THEN "WhatsApp e obrigatorio"
                                         ELSE "WhatsApp invalido"]
       ELSE m1

setButtonLoading(m, isLoading) == [m EXCEPT !.submitDisabled = isLoading]

\* The elements of a modal that is no longer in the document are detached:
\* what a continuation writes to them shows nowhere.
InDocument(d, id) == \E k \in 1..Len(d.modals) : d.modals[k].id = id
ModalOf(d, id) == CHOOSE m \in {d.modals[k] : k \in 1..Len(d.modals)} : m.id = id
Update(d, id, m) ==
    [d EXCEPT !.modals = [k \in 1..Len(@) |-> IF @[k].id = id THEN m ELSE @[k]]]

FreeIds(d, ps) ==
    {id \in ModalIds : ~InDocument(d, id) /\ \A k \in 1..Len(ps) : ps[k].modal # id}

\* The handler or continuation that ran last: the modal it ran for, the modals
\* in the document when it started, the message it showed or "", and its
\* activation of handleFormSubmit.
FEv(op, modal, error, post) ==
    [op |-> op, modal |-> modal, before |-> Len(document.modals),
     error |-> error, post |-> post]

(* A click on a card's contact control: handleContactClick, openContactModal. *)
OpenContactModal ==
    /\ document.escapeListeners < MaxEscapeListeners
    /\ LET id == CHOOSE x \in FreeIds(document, posts) :
                     \A y \in FreeIds(document, posts) : x <= y
       IN /\ document' = openContactModal(document, id)
          /\ formEvent' = FEv("open", id, "", None)
    /\ UNCHANGED <<posts, waCount>>

(* A click on the close control or on the backdrop. *)
CloseClicked(control) ==
    /\ document.modals # <<>>
    /\ document' = closeContactModal(document)
    /\ formEvent' = FEv(control, 0, "", None)
    /\ UNCHANGED <<posts, waCount>>

(* The Escape key is pressed. *)
EscapeKey ==
    /\ document' = escapePressed(document)
    /\ formEvent' = FEv("escape", 0, "", None)
    /\ UNCHANGED <<posts, waCount>>

(* The visitor edits the name field: its input listener hides the field error. *)
NameInput(k, value) ==
    /\ k \in 1..Len(document.modals)
    /\ document' = [document EXCEPT !.modals[k].name = value,
                                    !.modals[k].nameError = ""]
    /\ formEvent' = FEv("nameInput", document.modals[k].id, "", None)
    /\ UNCHANGED <<posts, waCount>>

(* The visitor edits the phone field: its input listeners hide the field error
   and rewrite the value with formatBrazilianPhone. *)
WhatsappInput(k, value) ==
    /\ k \in 1..Len(document.modals)
    /\ document' = [document EXCEPT !.modals[k].whatsapp = formatBrazilianPhone(value),
                                    !.modals[k].whatsappError = ""]
    /\ formEvent' = FEv("whatsappInput", document.modals[k].id, "", None)
    /\ UNCHANGED <<posts, waCount>>

(* The name field loses focus. *)
NameBlur(k) ==
    /\ k \in 1..Len(document.modals)
    /\ LET name == trim(document.modals[k].name)
       IN document' =
            [document EXCEPT !.modals[k].nameError =
                IF name # <<>> /\ ~validateName(name)
                THEN NameInvalidMessage
                ELSE ""]
    /\ formEvent' = FEv("nameBlur", document.modals[k].id, "", None)
    /\ UNCHANGED <<posts, waCount>>

(* The phone field loses focus. *)
WhatsappBlur(k) ==
    /\ k \in 1..Len(document.modals)
    /\ LET phone == trim(document.modals[k].whatsapp)
       IN document' =
            [document EXCEPT !.modals[k].whatsappError =
                IF phone # <<>> /\ ~validateBrazilianPhone(phone)
                THEN WhatsappInvalidMessage
                ELSE ""]
    /\ formEvent' = FEv("whatsappBlur", document.modals[k].id, "", None)
    /\ UNCHANGED <<posts, waCount>>

\* handleFormSubmit up to its await: the new modal element, and the POST it
\* issued if it issued one.  disabledAtIssue is the state of the submit control
\* when submitContact is called.
handleFormSubmit(m) ==
    LET name == trim(m.name)
        whatsapp == trim(m.whatsapp)
        m0 == clearFieldErrors([m EXCEPT !.formError = ""])
        validationErrors == validateForm(name, whatsapp)
    IN IF Len(validationErrors) > 0
       THEN [modal |-> highlightInvalidFields(
                           [m0 EXCEPT !.formError = validationErrors[1]],
                           name, whatsapp),
             sent |-> FALSE, post |-> None, error |-> validationErrors[1]]
       ELSE LET m1 == setButtonLoading(m0, TRUE)
            IN [modal |-> m1, sent |-> TRUE, error |-> "",
                post |-> [pc |-> "post", modal |-> m.id, name |-> name,
                          whatsapp |-> whatsapp,
                          disabledAtIssue |-> m1.submitDisabled]]

(* The form of the k-th modal is submitted.  A disabled submit control submits
   nothing. *)
SubmitForm(k) ==
    /\ k \in 1..Len(document.modals)
    /\ ~document.modals[k].submitDisabled
    /\ LET r == handleFormSubmit(document.modals[k])
       IN /\ r.sent => Len(posts) < MaxInFlight /\ waCount + Len(posts) < MaxOpens
          /\ document' = [document EXCEPT !.modals[k] = r.modal]
          /\ posts' = IF r.sent THEN Append(posts, r.post) ELSE posts
          /\ formEvent' = FEv("submit", r.modal.id, r.error, r.post)
    /\ waCount' = waCount

\* handleFormSubmit after submitContact returned: openWhatsApp,
\* closeContactModal, and the finally block.
submitSucceeded(d, post) ==
    LET d1 == closeContactModal(d)
    IN IF InDocument(d1, post.modal)
       THEN Update(d1, post.modal, setButtonLoading(ModalOf(d1, post.modal), FALSE))
       ELSE d1

\* Mutant: the finally block is missing.
submitFailed_noFinally(d, post, message) ==
    IF InDocument(d, post.modal)
    THEN Update(d, post.modal, [ModalOf(d, post.modal) EXCEPT !.formError = message])
    ELSE d

\* handleFormSubmit after submitContact threw: the catch and the finally block.
submitFailed(d, post, message) ==
    IF InDocument(d, post.modal)
    THEN Update(d, post.modal,
                setButtonLoading([ModalOf(d, post.modal) EXCEPT !.formError = message],
                                 FALSE))
    ELSE d

(* A POST settles for a suspended handleFormSubmit. *)
PostSettled(p, outcome) ==
    /\ p \in 1..Len(posts)
    /\ LET message == submitContact(outcome)
       IN /\ document' = IF message = "" THEN submitSucceeded(document, posts[p])
                         ELSE submitFailed(document, posts[p], message)
          /\ waCount' = IF message = "" THEN waCount + 1 ELSE waCount
          /\ formEvent' = FEv("postSettled", posts[p].modal, message, Ended(posts[p]))
    /\ posts' = RemoveAt(posts, p)

ModalInit ==
    /\ document = [modals |-> <<>>, overflow |-> "", escapeListeners |-> 0]
    /\ posts = <<>>
    /\ waCount = 0
    /\ formEvent = [op |-> "load", modal |-> 0, before |-> 0, error |-> "", post |-> None]

-----------------------------------------------------------------------------
(* The exported functions called on their own, as a unit test calls them. *)

VARIABLE
    call         \* the function called last: its name, its arguments, its result

NoCall == [fn |-> "none", args |-> <<>>, result |-> <<>>]
Call(fn, args, result) == [fn |-> fn, args |-> args, result |-> result]

\* A call of a function that reads and writes no state of the page.
Pure(fn, args, result) == call' = Call(fn, args, result)
PageIdle == UNCHANGED <<appVars, event, document, posts, waCount, formEvent>>

\* A call of a view function: it writes the regions and nothing else.
View(fn, args, u) ==
    /\ call' = Call(fn, args, <<>>)
    /\ ui' = u
RestIdle ==
    UNCHANGED <<booted, appState, langSelect, loads, langs, getCount, event,
                document, posts, waCount, formEvent>>

\* The messages showError is called with.
ErrorMessages == {FetchErrorMessage, "Nenhuma experiencia encontrada."}

CallShowLoading == View("showLoading", <<>>, showLoading(ui))
CallHideLoading == View("hideLoading", <<>>, hideLoading(ui))
CallShowError(message) == View("showError", message, showError(ui, message))
CallHideError == View("hideError", <<>>, hideError(ui))
CallShowData == View("showData", <<>>, showData(ui))

\* Digits in the longest phone argument.
MaxDigits == 12

\* The phone arguments: n digits, bare, spaced out, or inside other text.
DigitChars == <<"1", "2", "3", "4", "5", "6", "7", "8", "9", "0">>
DigitString(n) == [k \in 1..n |-> DigitChars[((k - 1) % 10) + 1]]
Spaced(str) == [k \in 1..(2 * Len(str)) |-> IF k % 2 = 1 THEN str[(k + 1) \div 2] ELSE " "]
PhoneArgs ==
    UNION { { DigitString(n),
              Spaced(DigitString(n)),
              <<"t", "e", "l", ":", "+">> \o DigitString(n) \o <<"x">> } :
            n \in 0..MaxDigits }

CallValidateBrazilianPhone(phone) ==
    Pure("validateBrazilianPhone", phone, validateBrazilianPhone(phone))

CallFormatBrazilianPhone(phone) ==
    Pure("formatBrazilianPhone", phone, formatBrazilianPhone(phone))

\* The name arguments: empty, one letter, plain names, names with an accented
\* letter of the range (U+00E9) and outside it (U+0142, l with stroke), with a
\* digit, with punctuation, with the multiplication and division signs, with
\* an inner tab, and names that are only spaces or hyphens.
NameArgs ==
    { <<>>, <<"A">>, <<"A", "n", "a">>, <<" ", "A", " ">>, <<" ", "A", "n", "a", " ">>,
      <<"A", "n", "a", " ", "L", "u">>, <<"J", "o", "-", "A", "n">>,
      <<"Z", "U+00E9">>, <<"U+00C0", "U+00FF">>, <<"P", "a", "w", "e", "U+0142">>,
      <<"A", "1">>, <<"A", "!">>, <<"A", "U+00D7">>, <<"U+00F7", "b">>,
      <<"a", "TAB", "b">>, <<" ", " ", " ">>, <<"-", "-">> }

CallValidateName(name) == Pure("validateName", name, validateName(name))

\* The records formatExperienceData is called with: one text with every
\* combination of a direct URL and an Image field.
DirectValues ==
    { Absent, Number, Str(<<>>), Str(<<" ">>), Str(<<DirectUrl>>),
      Str(<<" ", DirectUrl, " ">>), Str(<<PageUrl>>), Str(<<RelativeUrl>>) }
ImageValues ==
    { NoImage, [NoImage EXCEPT !.kind = "notarray"], [NoImage EXCEPT !.kind = "empty"] }
    \cup { Attachment(cover, thumb, url) :
             cover \in BOOLEAN,
             thumb \in {Absent, Str(<<ThumbUrl>>), Str(<<PageUrl>>)},
             url \in {Absent, Number, Str(<<>>), Str(<<OriginalUrl>>), Str(<<RelativeUrl>>)} }
ImageRecords ==
    { WithImage(Rec(1, "Trilha", "Trail", "Subida ao pico", "Climb to the peak"),
                direct, image) :
        direct \in DirectValues, image \in ImageValues }

\* One image with every combination of present and empty locale fields.
TextRecords ==
    { WithImage(Rec(1, npt, nen, dpt, den), Str(<<DirectUrl>>), NoImage) :
        npt \in {"", "Trilha"}, nen \in {"", "Trail"},
        dpt \in {"", "Subida ao pico"}, den \in {"", "Climb to the peak"} }

\* The records validateExperienceData is called with: with and without an
\* identifier, each locale field and an image, and a null.
ValidationRecords ==
    { WithImage(Rec(id, npt, nen, dpt, den), direct, NoImage) :
        id \in {0, 7}, npt \in {"", "Trilha"}, nen \in {"", "Trail"},
        dpt \in {"", "Subida ao pico"}, den \in {"", "Climb to the peak"},
        direct \in {Absent, Str(<<DirectUrl>>)} }
    \cup {NullRecord}

CallValidateExperienceData(experience) ==
    Pure("validateExperienceData", experience,
         [threw |-> validateExperienceDataThrows(experience),
          value |-> validateExperienceData(experience)])

\* The cached lists renderData is called with.
ListMixed == <<ListTwo[1], ListInvalid[1], ListTwo[2], Rec(0, "Sem id", "", "x", "")>>
ListWithNull == <<ListTwo[1], NullRecord>>
RenderLists == Lists \cup {ListMixed, ListWithNull}

CallRenderData(data, language) ==
    View("renderData", <<data, language>>,
         renderData(ui, [appState EXCEPT !.cachedData = data,
                                         !.currentLang = language]))

CallFormatExperienceData(experience, language) ==
    Pure("formatExperienceData", <<experience, language>>,
         formatExperienceData(experience, language))

CallSubmitContact(outcome) ==
    Pure("submitContact", outcome, submitContact(outcome))

CallFetchExperiences(resp) ==
    Pure("fetchExperiences", resp, fetchExperiences(resp))

-----------------------------------------------------------------------------
(* The application controller's specification *)

\* The markup is not part of the sources: of the three regions at most one is
\* visible before initializeApp, and the selector shows either option.
AppInit ==
    /\ booted = FALSE
    /\ appState \in [currentLang : Langs, cachedData : {Null},
                     translations : {EmptyTranslations}, isLoading : {FALSE}]
    /\ ui \in { u \in [loadingState : BOOLEAN, dynamicData : BOOLEAN,
                       errorState : BOOLEAN, errorMessage : {""},
                       labels : {"markup"}, cards : {<<>>}] :
                  Cardinality({r \in {"l", "d", "e"} :
                      \/ r = "l" /\ u.loadingState
                      \/ r = "d" /\ u.dynamicData
                      \/ r = "e" /\ u.errorState}) <= 1 }
    /\ langSelect \in [value : Langs, disabled : {FALSE}, currentLang : {""}]
    /\ loads = <<>>
    /\ langs = <<>>
    /\ getCount = 0

vars == <<booted, appState, ui, langSelect, loads, langs, getCount, event,
          document, posts, waCount, formEvent, call>>

InitApp ==
    /\ AppInit
    /\ event = Ev("load", "", None, None)
    /\ ModalInit
    /\ call = NoCall

\* While the application controller runs, the contact modal stays as it is.
ModalIdle == UNCHANGED <<document, posts, waCount, formEvent, call>>

NextApp ==
    \/ InitializeApp /\ ModalIdle
    \/ HandleRetry /\ ModalIdle
    \/ (\E i \in 1..Len(loads) : LoadTranslationsResolved(i)) /\ ModalIdle
    \/ (\E i \in 1..Len(loads) : LoadTranslationsRejected(i)) /\ ModalIdle
    \/ (\E i \in 1..Len(loads) : LoadFallbackResolved(i)) /\ ModalIdle
    \/ (\E i \in 1..Len(loads) : LoadFallbackRejected(i)) /\ ModalIdle
    \/ (\E i \in 1..Len(loads), resp \in Responses : LoadFetchSettled(i, resp)) /\ ModalIdle
    \/ (\E newLang \in Langs : LangChange(newLang)) /\ ModalIdle
    \/ (\E j \in 1..Len(langs) : LangTranslationsResolved(j)) /\ ModalIdle
    \/ (\E j \in 1..Len(langs) : LangTranslationsRejected(j)) /\ ModalIdle
    \/ (\E j \in 1..Len(langs) : LangFallbackResolved(j)) /\ ModalIdle
    \/ (\E j \in 1..Len(langs) : LangFallbackRejected(j)) /\ ModalIdle
    \/ UnhandledRejection /\ ModalIdle
    \/ (\E mentionsFetch \in BOOLEAN : UncaughtError(mentionsFetch)) /\ ModalIdle

SpecApp == InitApp /\ [][NextApp]_vars

\* The network call a suspended loadAppData awaits settles: its translation
\* load, its fallback load or its GET resolves or rejects.
LoadSettles ==
    /\ \E i \in 1..Len(loads) :
          \/ LoadTranslationsResolved(i)
          \/ LoadTranslationsRejected(i)
          \/ LoadFallbackResolved(i)
          \/ LoadFallbackRejected(i)
          \/ \E resp \in Responses : LoadFetchSettled(i, resp)
    /\ ModalIdle

\* Every network call of a load sequence eventually settles.  An awaited call
\* stays pending until it settles and the continuation runs as soon as the
\* event loop is free, so weak fairness is what the assumption gives.
SpecAppFair == SpecApp /\ WF_vars(LoadSettles)

-----------------------------------------------------------------------------
(* The modal controller's specification: the page has loaded and shows the
   cards, and the visitor works the contact modal. *)

InitModal ==
    /\ ModalInit
    /\ booted = TRUE
    /\ appState = [currentLang |-> "pt-br", cachedData |-> Data(ListTwo),
                   translations |-> TranslationsOf("pt-br"), isLoading |-> FALSE]
    /\ ui = renderData([loadingState |-> FALSE, dynamicData |-> FALSE,
                        errorState |-> FALSE, errorMessage |-> "",
                        labels |-> TranslationsOf("pt-br"), cards |-> <<>>],
                       appState)
    /\ langSelect = [value |-> "pt-br", disabled |-> FALSE, currentLang |-> ""]
    /\ loads = <<>>
    /\ langs = <<>>
    /\ getCount = 1
    /\ event = Ev("loadFetchSettled", "", None, None)
    /\ call = NoCall

\* While the visitor works the modal, the application controller stays as it is.
AppIdle == UNCHANGED <<appVars, event, call>>

NextModal ==
    \/ OpenContactModal /\ AppIdle
    \/ (\E control \in {"closeButton", "backdrop"} : CloseClicked(control)) /\ AppIdle
    \/ EscapeKey /\ AppIdle
    \/ (\E k \in 1..Len(document.modals), value \in NameInputs : NameInput(k, value)) /\ AppIdle
    \/ (\E k \in 1..Len(document.modals), value \in PhoneInputs : WhatsappInput(k, value)) /\ AppIdle
    \/ (\E k \in 1..Len(document.modals) : NameBlur(k)) /\ AppIdle
    \/ (\E k \in 1..Len(document.modals) : WhatsappBlur(k)) /\ AppIdle
    \/ (\E k \in 1..Len(document.modals) : SubmitForm(k)) /\ AppIdle
    \/ (\E p \in 1..Len(posts), outcome \in PostOutcomes : PostSettled(p, outcome)) /\ AppIdle

SpecModal == InitModal /\ [][NextModal]_vars

-----------------------------------------------------------------------------
(* The unit specification: from a page in any of its initial states, each step
   calls one exported function with arguments drawn from the sets above. *)

NextUnits ==
    \/ (\E outcome \in PostOutcomes : CallSubmitContact(outcome)) /\ PageIdle
    \/ (\E resp \in Responses : CallFetchExperiences(resp)) /\ PageIdle
    \/ (\E phone \in PhoneArgs : CallValidateBrazilianPhone(phone)) /\ PageIdle
    \/ (\E phone \in PhoneArgs : CallFormatBrazilianPhone(phone)) /\ PageIdle
    \/ (\E name \in NameArgs : CallValidateName(name)) /\ PageIdle
    \/ (\E experience \in ImageRecords \cup TextRecords, language \in Langs :
          CallFormatExperienceData(experience, language)) /\ PageIdle

\* The functions read no state of the page but the regions: one language.
InitUnits ==
    /\ InitApp
    /\ appState.currentLang = DefaultLang
    /\ langSelect.value = DefaultLang

SpecUnits == InitUnits /\ [][NextUnits]_vars

-----------------------------------------------------------------------------
(* The view specification: each step calls one of the functions that show and
   hide the regions, renderData on a cached list, or the validation that
   renderData filters the list with. *)

NextView ==
    \/ CallShowLoading /\ RestIdle
    \/ CallHideLoading /\ RestIdle
    \/ (\E message \in ErrorMessages : CallShowError(message)) /\ RestIdle
    \/ CallHideError /\ RestIdle
    \/ CallShowData /\ RestIdle
    \/ (\E data \in {Null} \cup {Data(rs) : rs \in RenderLists}, language \in Langs :
          CallRenderData(data, language)) /\ RestIdle
    \/ (\E experience \in ValidationRecords : CallValidateExperienceData(experience))
       /\ PageIdle

SpecView == InitUnits /\ [][NextView]_vars

-----------------------------------------------------------------------------
(* Properties of the application controller *)

LoadTranslationOps == {"loadTranslationsResolved", "loadFallbackResolved"}
LangOps == {"langChange", "langTranslationsResolved", "langTranslationsRejected",
            "langFallbackResolved", "langFallbackRejected"}

\* C1: a retry click handled while a load sequence is in flight (isLoading true)
\* starts no load sequence, issues no GET, and leaves currentLang, cachedData,
\* translations, isLoading, the regions and every suspended activation as they
\* were.
C1_RetryIgnoredWhileLoading ==
    [][ (appState.isLoading /\ event'.op = "handleRetry")
        => UNCHANGED <<appState, ui, loads, langs, getCount, langSelect>> ]_vars

\* A retry was clicked while the one load sequence was waiting for its GET.
C1_Witness ==
    /\ event.op = "handleRetry"
    /\ appState.isLoading
    /\ Len(loads) = 1
    /\ loads[1].pc = "fetch"

\* C2: no run of a language change issues a GET or touches the cached list, the
\* loading flag or a load sequence.
C2_LanguageChangeNeverFetches ==
    [][ event'.op \in LangOps
        => /\ getCount' = getCount
           /\ appState'.cachedData = appState.cachedData
           /\ appState'.isLoading = appState.isLoading
           /\ loads' = loads ]_vars

\* A switch to en-us redrew the cards of a cached two-item list after one GET.
C2_Witness ==
    /\ event.op = "langTranslationsResolved"
    /\ event.lang.previousLang = "pt-br"
    /\ appState.currentLang = "en-us"
    /\ appState.cachedData = Data(ListTwo)
    /\ Len(ui.cards) = 2
    /\ ui.cards[1].name = "Trail"
    /\ getCount = 1

\* C3: a retry clicked while no load is in flight clears the cached list and
\* starts a load sequence; a sequence a retry started issues its one GET in
\* the run in which its translation load succeeds, and never another.
C3_RetryForcesOneFetch ==
    [][ /\ (event'.op = "handleRetry" /\ ~appState.isLoading)
           => /\ appState'.cachedData = Null
              /\ appState'.isLoading
              /\ Len(loads') = Len(loads) + 1
              /\ loads'[Len(loads')].origin = "retry"
              /\ loads'[Len(loads')].fetches = 0
        /\ (event'.op \in LoadTranslationOps /\ event'.load.origin = "retry")
           => /\ event'.load.pc = "fetch"
              /\ event'.load.fetches = 1
              /\ getCount' = getCount + 1
        /\ (event'.load.pc # "none" /\ event'.load.origin = "retry"
            /\ event'.op \notin LoadTranslationOps)
           => getCount' = getCount ]_vars

\* A retry made over a cached list is waiting for its own GET.
C3_Witness ==
    \E i \in 1..Len(loads) :
        /\ loads[i].origin = "retry"
        /\ loads[i].hadCache
        /\ loads[i].pc = "fetch"
        /\ loads[i].fetches = 1

\* C4: a GET is issued only by the run in which the translation load of the
\* same sequence succeeded; a sequence waiting for translations has issued no
\* GET, and one that ends by a failed translation load has issued none.
C4_FetchOnlyAfterTranslations ==
    [][ /\ getCount' # getCount
           => /\ event'.op \in LoadTranslationOps
              /\ event'.load.transOk
              /\ getCount' = getCount + 1
        /\ \A i \in 1..Len(loads') :
              /\ loads'[i].pc = "fetch" => loads'[i].transOk /\ loads'[i].fetches = 1
              /\ loads'[i].pc \in {"translations", "fallback"}
                 => ~loads'[i].transOk /\ loads'[i].fetches = 0
        /\ (event'.load.pc = "done" /\ ~event'.load.transOk)
           => event'.load.fetches = 0 /\ getCount' = getCount ]_vars

\* A sequence ended by a failed fallback, after an earlier one had fetched.
C4_Witness ==
    /\ event.op = "loadFallbackRejected"
    /\ event.load.pc = "done"
    /\ event.load.fetches = 0
    /\ getCount >= 1

\* The runs in which a language change fails: the default locale's load is
\* rejected, as the requested locale or as the fallback.
LangFailure(e) ==
    \/ e.op = "langFallbackRejected"
    \/ e.op = "langTranslationsRejected" /\ e.lang.newLang = DefaultLang

\* C5: the run in which a language change fails sets currentLang to the value
\* it had when the change began, throws to the selector's listener, and assigns
\* no translations: they are as before the run, and as before the change unless
\* a load sequence assigned them meanwhile.
C5_FailedChangeRollsBack ==
    [][ LangFailure(event')
        => /\ appState'.currentLang = event'.lang.previousLang
           /\ event'.error # ""
           /\ event'.lang.pc = "done"
           /\ appState'.translations = appState.translations
           /\ ~event'.lang.loadWrote
              => appState'.translations = event'.lang.transBefore ]_vars

\* A change from pt-br to en-us failed in its fallback and left pt-br in place.
C5_Witness ==
    /\ event.op = "langFallbackRejected"
    /\ event.lang.previousLang = "pt-br"
    /\ event.lang.newLang = "en-us"
    /\ appState.currentLang = "pt-br"
    /\ appState.translations = "pt-br"
    /\ ~event.lang.loadWrote

\* The runs of loadTranslationsForLanguage, in a load sequence or a language
\* change, and the activation each belongs to.
TranslationOps ==
    {"loadTranslationsResolved", "loadTranslationsRejected",
     "loadFallbackResolved", "loadFallbackRejected",
     "langTranslationsResolved", "langTranslationsRejected",
     "langFallbackResolved", "langFallbackRejected"}
Activation(e) == IF e.load.pc # "none" THEN e.load ELSE e.lang
Requested(a) == IF "language" \in DOMAIN a THEN a.language ELSE a.newLang

\* The attempts and the errors of the fallback: a rejected load of a non-default locale
\* starts the one fallback load of pt-br, sets currentLang to pt-br and raises
\* nothing; a resolved fallback assigns the pt-br translations and raises
\* nothing; a rejected load of pt-br, requested or fallback, starts no further
\* load and raises an error, which in a load sequence ends with the error
\* region alone visible and the loading flag reset.
FallbackAttempts ==
    [][ event'.op \in TranslationOps
        => LET a == Activation(event')
           IN /\ a.fallbacks <= 1
              /\ (event'.op \in {"loadTranslationsRejected", "langTranslationsRejected"}
                  /\ Requested(a) # DefaultLang)
                 => /\ a.pc = "fallback"
                    /\ a.fallbacks = 1
                    /\ event'.error = ""
                    /\ appState'.currentLang = DefaultLang
              /\ event'.op \in {"loadFallbackResolved", "langFallbackResolved"}
                 => /\ event'.error = ""
                    /\ appState'.translations = TranslationsOf(DefaultLang)
              /\ (\/ event'.op \in {"loadFallbackRejected", "langFallbackRejected"}
                  \/ /\ event'.op \in {"loadTranslationsRejected",
                                       "langTranslationsRejected"}
                     /\ Requested(a) = DefaultLang)
                 => /\ a.pc = "done"
                    /\ event'.error # ""
                    /\ event'.load.pc = "done"
                       => /\ ui'.errorState
                          /\ ~ui'.loadingState
                          /\ ~ui'.dynamicData
                          /\ ~appState'.isLoading ]_vars

\* A load sequence fell back to pt-br and is waiting for its GET.
C6_Witness ==
    /\ event.op = "loadFallbackResolved"
    /\ event.load.fallbacks = 1
    /\ appState.translations = TranslationsOf(DefaultLang)

\* The state a resolved fallback leaves: currentLang is pt-br and the
\* translations are the pt-br ones.
FallbackLeavesDefaultLocale ==
    [][ event'.op \in {"loadFallbackResolved", "langFallbackResolved"}
        => /\ appState'.currentLang = DefaultLang
           /\ appState'.translations = TranslationsOf(DefaultLang) ]_vars

\* C6: a rejected load of a non-default locale starts exactly one fallback load
\* of pt-br; when the fallback resolves no error is raised and currentLang is
\* pt-br with the pt-br translations; when pt-br itself is rejected, requested
\* or as the fallback, nothing more is tried and an error is raised, which in
\* a load sequence ends in the error region.
C6_TranslationFallback ==
    [][ /\ event'.op \in {"loadFallbackResolved", "langFallbackResolved"}
           => /\ appState'.currentLang = DefaultLang
              /\ appState'.translations = TranslationsOf(DefaultLang)
              /\ event'.error = ""
        /\ event'.op \in TranslationOps
           => LET a == Activation(event')
              IN /\ a.fallbacks <= 1
                 /\ (event'.op \in {"loadTranslationsRejected",
                                    "langTranslationsRejected"}
                     /\ Requested(a) # DefaultLang)
                    => a.pc = "fallback" /\ a.fallbacks = 1 /\ event'.error = ""
                 /\ (\/ event'.op \in {"loadFallbackRejected", "langFallbackRejected"}
                     \/ /\ event'.op \in {"loadTranslationsRejected",
                                          "langTranslationsRejected"}
                        /\ Requested(a) = DefaultLang)
                    => /\ a.pc = "done"
                       /\ event'.error # ""
                       /\ event'.load.pc = "done"
                          => ui'.errorState /\ ~ui'.loadingState ]_vars

-----------------------------------------------------------------------------
(* Properties of the modal controller *)

\* The modal a step of handleFormSubmit ran for, as the step found it and as
\* it left it.
Submitted == ModalOf(document, formEvent'.modal)
SubmittedAfter == ModalOf(document', formEvent'.modal)

NameInvalid(m) == trim(m.name) = <<>> \/ ~validateName(trim(m.name))
PhoneInvalid(m) == trim(m.whatsapp) = <<>> \/ ~validateBrazilianPhone(trim(m.whatsapp))

NameErrors == {NameRequiredMessage, NameInvalidMessage}
PhoneErrors == {WhatsappRequiredMessage, WhatsappInvalidMessage}

(* C7: a form submit issues the POST only if the trimmed name is non-empty and
   passes validateName and the trimmed phone is non-empty and passes
   validateBrazilianPhone; a submit with an invalid or empty name or phone
   issues no POST and opens no WhatsApp link. *)
C7_PostOnlyIfValid ==
    [][ formEvent'.op = "submit"
        => /\ posts' # posts => ~NameInvalid(Submitted) /\ ~PhoneInvalid(Submitted)
           /\ NameInvalid(Submitted) \/ PhoneInvalid(Submitted)
              => /\ posts' = posts
                 /\ waCount' = waCount ]_vars

\* A form with a valid name and an invalid phone was submitted and rejected.
C7_Witness ==
    /\ formEvent.op = "submit"
    /\ formEvent.error = WhatsappInvalidMessage
    /\ formEvent.post = None
    /\ waCount > 0

(* C8, as stated: when a form is submitted with both the name and the phone
   invalid, the form-level error is the phone error; the name error is the
   form-level error only if the phone is valid. *)
C8_PhoneErrorFirst ==
    [][ formEvent'.op = "submit"
        => /\ NameInvalid(Submitted) /\ PhoneInvalid(Submitted)
              => SubmittedAfter.formError \in PhoneErrors
           /\ SubmittedAfter.formError \in NameErrors => ~PhoneInvalid(Submitted) ]_vars

(* C8, amended: when a form is submitted with both the name and the phone
   invalid, the form-level error is the name error; the phone error is the
   form-level error only if the name is valid. *)
C8_NameErrorFirst ==
    [][ formEvent'.op = "submit"
        => /\ NameInvalid(Submitted) /\ PhoneInvalid(Submitted)
              => SubmittedAfter.formError \in NameErrors
           /\ SubmittedAfter.formError \in PhoneErrors => ~NameInvalid(Submitted) ]_vars

\* A submit found both fields invalid: both are highlighted, and the form-level
\* error is the name's.
C8_Witness ==
    /\ formEvent.op = "submit"
    /\ \E k \in 1..Len(document.modals) :
          /\ document.modals[k].id = formEvent.modal
          /\ document.modals[k].nameError # ""
          /\ document.modals[k].whatsappError # ""
          /\ document.modals[k].formError = NameInvalidMessage

(* C9: after any sequence of open, close (Escape, backdrop, close control) and
   submit operations, at most one contact modal is in the document, and the
   page scroll is locked exactly when a modal is in the document. *)
C9_OneModalScrollLocked ==
    /\ Len(document.modals) <= 1
    /\ document.overflow = "hidden" <=> Len(document.modals) = 1

\* A modal was opened while another was open and a POST was in flight.
C9_Witness ==
    /\ formEvent.op = "open"
    /\ formEvent.before = 1
    /\ posts # <<>>
    /\ InDocument(document, formEvent.modal)

(* C10: for a valid submit the submit control is disabled before the POST is
   issued; a POST that succeeds opens the WhatsApp link exactly once and the
   modal is then closed; a POST that fails opens no WhatsApp link, closes no
   modal, and the modal shows the returned message with its submit control
   enabled again.  The WhatsApp link is opened by nothing else. *)
C10_SubmitLifecycle ==
    [][ /\ formEvent'.op = "submit" /\ posts' # posts
           => /\ formEvent'.post.disabledAtIssue
              /\ SubmittedAfter.submitDisabled
        /\ formEvent'.op = "postSettled" /\ formEvent'.error = ""
           => /\ waCount' = waCount + 1
              /\ ~InDocument(document', formEvent'.modal)
        /\ formEvent'.op = "postSettled" /\ formEvent'.error # ""
           => /\ waCount' = waCount
              /\ Len(document'.modals) = Len(document.modals)
              /\ formEvent'.error \in
                   {ServerErrorMessage, ConnectionErrorMessage, GenericErrorMessage}
              /\ InDocument(document, formEvent'.modal)
                 => /\ InDocument(document', formEvent'.modal)
                    /\ SubmittedAfter.formError = formEvent'.error
                    /\ ~SubmittedAfter.submitDisabled
        /\ waCount' # waCount
           => formEvent'.op = "postSettled" /\ formEvent'.error = "" ]_vars

\* A POST failed while its modal was open: the modal shows the message.
C10_Witness ==
    /\ formEvent.op = "postSettled"
    /\ formEvent.error = ServerErrorMessage
    /\ InDocument(document, formEvent.modal)
    /\ ModalOf(document, formEvent.modal).formError = ServerErrorMessage
    /\ ~ModalOf(document, formEvent.modal).submitDisabled
    /\ waCount > 0

-----------------------------------------------------------------------------
(* Properties of the exported functions *)

(* C11: submitContact classifies every failure into exactly one of three
   messages: every response with a non-2xx status yields the server-error
   message, every network-level failure of the request yields the connectivity
   message, any other failure yields the generic message; it returns
   successfully only for a 2xx response. *)
C11_SubmitContactClassification ==
    call.fn = "submitContact"
    => LET outcome == call.args
       IN /\ outcome.kind = "response" /\ ~outcome.ok
             => call.result = ServerErrorMessage
          /\ outcome.kind = "rejected" => call.result = ConnectionErrorMessage
          /\ outcome.kind = "response" /\ outcome.ok /\ ~outcome.json
             => call.result = GenericErrorMessage
          /\ call.result = "" => outcome.kind = "response" /\ outcome.ok

(* C12: fetchExperiences returns the response data if and only if the HTTP
   status is successful and the body has an array-valued results field; in
   every other case it fails with one and the same fixed message. *)
C12_FetchExperiencesAllOrFixedError ==
    call.fn = "fetchExperiences"
    => LET resp == call.args
           wellFormed == resp.kind = "response" /\ resp.ok /\ resp.body = "array"
       IN /\ call.result.ok <=> wellFormed
          /\ call.result.ok => call.result.data = Data(resp.results)
          /\ ~call.result.ok => call.result.message = FetchErrorMessage

\* A response with an unsuccessful status and a well-formed body was refused.
C12_Witness ==
    /\ call.fn = "fetchExperiences"
    /\ call.args.kind = "response"
    /\ ~call.args.ok
    /\ call.args.body = "array"
    /\ ~call.result.ok
    /\ call.result.message = FetchErrorMessage

Visible(u) ==
    {r \in {"loading", "error", "data"} :
        \/ r = "loading" /\ u.loadingState
        \/ r = "error" /\ u.errorState
        \/ r = "data" /\ u.dynamicData}

(* C13: the loading, error and data regions are mutually exclusive: from a
   state with at most one region visible, after any sequence of showLoading,
   hideLoading, showError, hideError and showData at most one region is
   visible, and each show call leaves exactly its own region visible. *)
C13_RegionsExclusive ==
    /\ Cardinality(Visible(ui)) <= 1
    /\ call.fn = "showLoading" => Visible(ui) = {"loading"}
    /\ call.fn = "showError" => Visible(ui) = {"error"}
    /\ call.fn = "showData" => Visible(ui) = {"data"}

\* showData was called after an error had been shown: only the data is visible.
C13_Witness ==
    /\ call.fn = "showData"
    /\ ui.errorMessage # ""
    /\ Visible(ui) = {"data"}

DigitCount(str) == Cardinality({k \in 1..Len(str) : str[k] \in Digits})

(* C14: validateBrazilianPhone returns true exactly when the input, with every
   non-digit character removed, has 10 or 11 digits. *)
C14_PhoneValidTenOrEleven ==
    call.fn = "validateBrazilianPhone"
    => (call.result <=> DigitCount(call.args) \in {10, 11})

\* A number of ten digits written with other characters between was accepted.
C14_Witness ==
    /\ call.fn = "validateBrazilianPhone"
    /\ DigitCount(call.args) = 10
    /\ Len(call.args) > 10
    /\ call.result = TRUE

(* C15: formatBrazilianPhone returns (DD) DDDDD-DDDD built from the input's
   digits when the input has exactly 11 digits, (DD) DDDD-DDDD when it has
   exactly 10, and the input unchanged for every other digit count; the digits
   and their order are preserved in all cases. *)
C15_PhoneFormat ==
    call.fn = "formatBrazilianPhone"
    => LET d == SelectSeq(call.args, IsDigit)
       IN /\ DigitCount(call.args) = 11
             => call.result = <<"(", d[1], d[2], ")", " ", d[3], d[4], d[5], d[6], d[7],
                                "-", d[8], d[9], d[10], d[11]>>
          /\ DigitCount(call.args) = 10
             => call.result = <<"(", d[1], d[2], ")", " ", d[3], d[4], d[5], d[6],
                                "-", d[7], d[8], d[9], d[10]>>
          /\ DigitCount(call.args) \notin {10, 11} => call.result = call.args
          /\ SelectSeq(call.result, IsDigit) = d

\* Ten digits inside other text came back grouped as a landline number.
C15_Witness ==
    /\ call.fn = "formatBrazilianPhone"
    /\ DigitCount(call.args) = 10
    /\ Len(call.args) > 10
    /\ Len(call.result) = 14
    /\ call.result[10] = "-"

\* The letters among the characters of the model, accented ones included.
Letters == AsciiLetters \cup {"U+00C0", "U+00E9", "U+00FF", "U+0142"}

(* C16: validateName returns true exactly when the name has at least 2
   characters and every character is a letter (accented letters included), a
   space or a hyphen; a name with any other character (digit, punctuation,
   symbol), or shorter than 2 characters after trimming, is rejected. *)
C16_NameLettersSpacesHyphens ==
    call.fn = "validateName"
    => LET name == trim(call.args)
       IN call.result <=>
            /\ Len(name) >= 2
            /\ \A k \in 1..Len(name) : name[k] \in Letters \cup {" ", "-"}

(* C17: formatExperienceData resolves the image URL by first match in a fixed
   order: the direct image-URL field if plausible, else the first attachment's
   card-sized thumbnail URL if plausible, else the first attachment's original
   URL if plausible, else the empty string.  The result is empty or passes the
   plausibility check, and a plausible direct URL wins over any attachment. *)
C17_ImagePrecedence ==
    call.fn = "formatExperienceData"
    => LET experience == call.args[1]
           imageUrl == call.result.imageUrl
           attached == experience.Image.kind = "list"
       IN /\ imageUrl =
                IF isValidImageUrl(experience.ImageURL)
                THEN trim(experience.ImageURL.text)
                ELSE IF attached /\ experience.Image.cover
                        /\ isValidImageUrl(experience.Image.thumb)
                THEN experience.Image.thumb.text
                ELSE IF attached /\ isValidImageUrl(experience.Image.url)
                THEN experience.Image.url.text
                ELSE <<>>
          /\ imageUrl = <<>> \/ isValidImageUrl(Str(imageUrl))

\* A record with an implausible direct URL and a plausible thumbnail resolved
\* to the thumbnail.
C17_Witness ==
    /\ call.fn = "formatExperienceData"
    /\ call.args[1].ImageURL = Str(<<PageUrl>>)
    /\ call.args[1].Image.kind = "list"
    /\ call.args[1].Image.url = Str(<<OriginalUrl>>)
    /\ call.result.imageUrl = <<ThumbUrl>>

(* C18: formatExperienceData never returns an empty name or description, for
   every record and language; it substitutes the fixed placeholder when both
   locale fields are empty. *)
C18_NeverEmptyText ==
    call.fn = "formatExperienceData"
    => LET experience == call.args[1]
       IN /\ call.result.name # ""
          /\ call.result.description # ""
          /\ experience.Name_pt_br = "" /\ experience.Name_en_us = ""
             => call.result.name = NamePlaceholder
          /\ experience.Description_pt_br = "" /\ experience.Description_en_us = ""
             => call.result.description = DescriptionPlaceholder

\* A record without a name in either locale, and with a description only in
\* the other locale, came back with both placeholders.
C18_Witness ==
    /\ call.fn = "formatExperienceData"
    /\ call.args[2] = "en-us"
    /\ call.args[1].Name_pt_br = ""
    /\ call.args[1].Name_en_us = ""
    /\ call.args[1].Description_pt_br # ""
    /\ call.result.name = NamePlaceholder
    /\ call.result.description = DescriptionPlaceholder

\* A record has an identifier, a name in either locale and a description in
\* either locale.
Accepted(experience) ==
    /\ experience.object
    /\ experience.id # 0
    /\ experience.Name_pt_br # "" \/ experience.Name_en_us # ""
    /\ experience.Description_pt_br # "" \/ experience.Description_en_us # ""

(* C19: validateExperienceData accepts a record exactly when it has an
   identifier, at least one localized name and at least one localized
   description, regardless of image presence; only accepted records are ever
   formatted and rendered as cards. *)
C19_OnlyAcceptedRecordsRendered ==
    /\ call.fn = "validateExperienceData"
       => (~call.result.threw /\ call.result.value <=> Accepted(call.args))
    /\ \A k \in 1..Len(ui.cards) : Accepted(ui.cards[k].originalData)
    /\ call.fn = "renderData" /\ ui.dynamicData
       => LET results == call.args[1].results
          IN /\ \A i \in 1..Len(results) :
                   Accepted(results[i])
                   <=> \E k \in 1..Len(ui.cards) : ui.cards[k].originalData = results[i]
             /\ \A k \in 1..Len(ui.cards) :
                   ui.cards[k] = formatExperienceData(ui.cards[k].originalData, call.args[2])

\* A list with accepted and refused records was rendered: two cards.
C19_Witness ==
    /\ call.fn = "renderData"
    /\ Len(call.args[1].results) = 4
    /\ ui.dynamicData
    /\ Len(ui.cards) = 2

\* The last run ended a load sequence.
LoadFinished == event.load.pc = "done"

\* The state a finished load sequence leaves: flag reset, loading region
\* hidden, exactly one of the data region and the error region visible.
LoadSettled ==
    /\ ~appState.isLoading
    /\ ~ui.loadingState
    /\ ui.dynamicData # ui.errorState

(* C20: if every network call settles, every load sequence that starts
   eventually finishes, and at the point where a load sequence finishes the
   loading flag is false, the loading region is hidden and exactly one of the
   data region and the error region is visible, whether it succeeded, failed in
   translations, failed in the fetch or found no valid record. *)
C20_LoadFinishes ==
    /\ [](LoadFinished => LoadSettled)
    /\ (Len(loads) > 0) ~> (LoadFinished /\ LoadSettled)

\* A load sequence fetched a list with no valid record and finished on the
\* error region.
C20_Witness ==
    /\ LoadFinished
    /\ event.op = "loadFetchSettled"
    /\ event.error = ""
    /\ ~appState.cachedData.null
    /\ ui.errorState
    /\ ui.errorMessage = "Nenhuma experiencia valida encontrada."
    /\ LoadSettled

-----------------------------------------------------------------------------
(* Properties of the interleavings *)

\* The last run ended a language change.
LangFinished == event.lang.pc = "done"

(* C21: after a language-change event has been fully handled (successfully,
   through the fallback to pt-br, or with failure and rollback), the value the
   language selector displays equals the application's current language. *)
C21_SelectorShowsCurrentLang ==
    LangFinished => langSelect.value = appState.currentLang

\* No load sequence and no language change is in flight.
Quiescent == Len(loads) = 0 /\ Len(langs) = 0

(* C22: whenever no load sequence and no language change is in flight, the
   translations held in the application state are the ones loaded for the
   current language, or empty if none was ever loaded. *)
C22_TranslationsMatchCurrentLang ==
    Quiescent =>
        \/ appState.translations = EmptyTranslations
        \/ appState.translations = TranslationsOf(appState.currentLang)

\* This step is the completion of a contact submission whose modal has left
\* the document.
DetachedPostSettles ==
    /\ Len(posts') < Len(posts)
    /\ formEvent'.op = "postSettled"
    /\ ~InDocument(document, formEvent'.modal)

(* C23: the completion of a contact submission affects only the modal it was
   submitted from: when that modal has been closed and another one is open,
   the success of the POST does not close the open modal and its failure does
   not alter it. *)
C23_CompletionTouchesOwnModalOnly ==
    [][DetachedPostSettles => document'.modals = document.modals]_vars

(* C24: at every point where a user event can be handled, if the error region
   with its retry control is visible then the loading flag is false, also
   after the window's unhandledrejection and error listeners have run. *)
C24_VisibleErrorNotLoading ==
    ui.errorState => ~appState.isLoading

=============================================================================
